---- MODULE Spec2Model ----
(***************************************************************************)
(* Model of the CloudWatch Logs stream writer (Writer): Write / Flush /    *)
(* Close called from caller goroutines, the background flushing goroutine  *)
(* (start), the event buffer and the PutLogEvents retry protocol.          *)
(* Byte strings, messages and tokens are sequences of one-character        *)
(* strings; a Go pointer or error that may be nil is a sequence of length  *)
(* 0 (nil) or 1.                                                           *)
(*                                                                         *)
(* Specifications:                                                         *)
(*   Spec        one goroutine writes and flushes, one closes, the ticker  *)
(*               fires;                                                    *)
(*   SpecLive    Spec with the fairness of the ticker, the mutex and the   *)
(*               remote calls;                                             *)
(*   SpecBatch   one goroutine writes an input cut into pieces, then       *)
(*               flushes;                                                  *)
(*   SpecWriters two goroutines write while the ticker fires;              *)
(*   SpecClock   SpecWriters while the clock advances;                     *)
(*   SpecLimits  flushes of a buffer of up to 10,001 events.               *)
(***************************************************************************)
EXTENDS Integers, Sequences, FiniteSets, TLC

----------------------------------------------------------------------------
(* Bounds *)

\* total number of Write calls in one behaviour of Spec
MaxWrites == 2
\* longest input byte string of the batching specification SpecBatch
MaxLen == 5
\* latest reading of the clock, in milliseconds
MaxClock == 1

----------------------------------------------------------------------------
(* Values *)

NL == "\n"
SP == " "

Nil == <<>>
Ptr(x) == <<x>>
Deref(p) == p[1]

\* the caller goroutines, one that writes and flushes and one that closes,
\* and the goroutine started by NewWriter
Writers == {"c1"}
Closers == {"c2"}
Callers == Writers \cup Closers
Sched == "sched"
Threads == Callers \cup {Sched}

\* sequence tokens the remote service hands out
Tokens == {<<"t", "1">>, <<"t", "2">>}

\* the limits of one PutLogEvents request
perEventBytes == 26
maximumBytesPerPut == 1048576
maximumLogEventsPerPut == 10000

dataAlreadyAcceptedCode == "DataAlreadyAcceptedException"
invalidSequenceTokenCode == "InvalidSequenceTokenException"
throttlingCode == "ThrottlingException"

\* an error value: an awserr.Error (Code, Message) or any other error
AwsErr(code, msg) == [aws |-> TRUE, code |-> code, msg |-> msg]
PlainErr(name) == [aws |-> FALSE, code |-> name, msg |-> Nil]

ErrClosedPipe == PlainErr("io.ErrClosedPipe")

\* the messages the service sends with the two conflict errors: free text
\* ending in the token the stream expects next
StaleMsg(T) == <<"b", "a", "d", SP, "n", ":", SP>> \o T
AlreadyMsg(T) == <<"d", "u", "p", SP, "n", ":", SP>> \o T

\* answers of the remote PutLogEvents: (output, error)
RespOk(T) == [err |-> Nil, next |-> Ptr(T)]
RespErr(e) == [err |-> Ptr(e), next |-> Nil]
RespStale(T) == RespErr(AwsErr(invalidSequenceTokenCode, StaleMsg(T)))
RespAlready(T) == RespErr(AwsErr(dataAlreadyAcceptedCode, AlreadyMsg(T)))
RespThrottle == RespErr(AwsErr(throttlingCode, <<"s", "l", "o", "w">>))
RespNet == RespErr(PlainErr("net"))

\* the answers the model draws from: the token a conflict carries differs
\* from one conflict class to the other
StaleToken == <<"t", "1">>
AlreadyToken == <<"t", "2">>
Responses ==
    {RespOk(T) : T \in Tokens}
        \cup {RespStale(StaleToken), RespAlready(AlreadyToken), RespThrottle, RespNet}

\* byte strings handed to Write in Spec
Inputs == {<<"a">>, <<"a", NL, "b">>}

\* bytes of the inputs of SpecBatch
Bytes == {"a", "b", NL}

----------------------------------------------------------------------------
(* Library functions *)

\* index of the first occurrence of c in s, 0 when there is none
IndexOf(s, c) ==
    IF \E i \in 1..Len(s) : s[i] = c
        THEN CHOOSE i \in 1..Len(s) : s[i] = c /\ \A j \in 1..(i - 1) : s[j] # c
        ELSE 0

\* strings.Split(s, sep) for a one-character sep: k separators give k+1 parts
RECURSIVE Split(_, _)
Split(s, sep) ==
    LET i == IndexOf(s, sep)
    IN  IF i = 0 THEN <<s>>
        ELSE <<SubSeq(s, 1, i - 1)>> \o Split(SubSeq(s, i + 1, Len(s)), sep)

\* ReadBytes with the line break cut off the line it returns
ReadBytesStrip(s, delim) ==
    LET i == IndexOf(s, delim)
    IN  IF i = 0 THEN [line |-> s, rest |-> <<>>, eof |-> TRUE]
        ELSE [line |-> SubSeq(s, 1, i - 1), rest |-> SubSeq(s, i + 1, Len(s)),
              eof |-> FALSE]

\* bufio.Reader.ReadBytes(delim): the bytes up to and including the first
\* delim, or all that is left together with io.EOF
ReadBytes(s, delim) ==
    LET i == IndexOf(s, delim)
    IN  IF i = 0 THEN [line |-> s, rest |-> <<>>, eof |-> TRUE]
        ELSE [line |-> SubSeq(s, 1, i), rest |-> SubSeq(s, i + 1, Len(s)),
              eof |-> FALSE]

\* the event Writer.buffer builds from one line at the time ts; id is history:
\* the rank of the event among those added to the buffer, 0 before it is added
NewEvent(line, ts) == [Message |-> line, Timestamp |-> ts, id |-> 0]

----------------------------------------------------------------------------
(* State *)

VARIABLES
    closed,         \* Writer.closed
    err,            \* Writer.err: Nil or Ptr(error)
    sequenceToken,  \* Writer.sequenceToken: Nil or Ptr(token)
    events,         \* Writer.events.events, the buffered events
    mu,             \* Writer.Mutex, "protects calls to flush": Nil or Ptr(holder)
    pc,             \* where each goroutine stands
    wr,             \* per goroutine: the Write call it runs, until its caller goes on
    fl,             \* per goroutine: the Flush call it runs, until it returns
    nWrites,        \* Write calls started so far
    closeReturned,  \* history: some Close call has returned
    okToken,        \* history: token stored by the last flush that succeeded
    plan,           \* SpecBatch only: the input, its cut, the pieces still to write
    clock,          \* what now() returns, in milliseconds
    nAdded,         \* history: events added to the buffer so far
    drained,        \* history: the batches the drains returned so far, in order
    sent,           \* history: the events handed to PutLogEvents so far
    stamps          \* history: the timestamps of these events

vars == <<closed, err, sequenceToken, events, mu, pc, wr, fl, nWrites,
          closeReturned, okToken, plan, clock, nAdded, drained, sent, stamps>>

\* the history of the buffer
hist == <<nAdded, drained, sent, stamps>>

shared == <<closed, err, sequenceToken, events, mu>>

\* no Write call yet
NoWrite ==
    [active |-> FALSE, done |-> FALSE, b |-> <<>>, rest |-> <<>>, n |-> 0,
     eof |-> FALSE, ev |-> Nil,
     err |-> Nil, added |-> <<>>, afterClose |-> FALSE, stored |-> Nil]

\* a Write call of b as it starts; afterClose and stored are history: whether
\* a Close had returned and what Writer.err held when the call started
NewWrite(b) ==
    [active |-> TRUE, done |-> FALSE, b |-> b, rest |-> b, n |-> 0,
     eof |-> FALSE, ev |-> Nil,
     err |-> Nil, added |-> <<>>, afterClose |-> closeReturned, stored |-> err]

\* no Flush call yet; lookups are the DescribeLogStreams requests of the
\* call: Flush, flush and putLogEvents make none
NoFlush ==
    [op |-> "none", done |-> FALSE, batch |-> <<>>, calls |-> <<>>,
     resps |-> <<>>, tok0 |-> Nil, err0 |-> Nil, tok1 |-> Nil, err1 |-> Nil,
     ok0 |-> Nil, buf0 |-> <<>>, lookups |-> <<>>, out |-> Nil]

\* a Flush call as it starts, made by op: "Flush", "Close" or "start"; buf0
\* is history: the events the buffer held when Close was called
NewFlush(op) ==
    [NoFlush EXCEPT !.op = op, !.buf0 = IF op = "Close" THEN events ELSE <<>>]

Init ==
    /\ closed = FALSE
    /\ err = Nil
    /\ sequenceToken = Nil
    /\ events = <<>>
    /\ mu = Nil
    /\ pc = [t \in Threads |-> IF t = Sched THEN "s_check" ELSE "idle"]
    /\ wr = [t \in Threads |-> NoWrite]
    /\ fl = [t \in Threads |-> NoFlush]
    /\ nWrites = 0
    /\ closeReturned = FALSE
    /\ okToken = Nil
    /\ plan = [input |-> <<>>, cut |-> <<>>, pieces |-> <<>>]
    /\ clock = 0
    /\ nAdded = 0
    /\ drained = <<>>
    /\ sent = <<>>
    /\ stamps = <<>>

----------------------------------------------------------------------------
(* Writer.Write and Writer.buffer *)

\* Write(b) is called: if w.closed { return 0, io.ErrClosedPipe }
WriteCall(t, b) ==
    /\ pc[t] = "idle"
    /\ IF closed
         THEN /\ pc' = [pc EXCEPT ![t] = "w_ret"]
              /\ wr' = [wr EXCEPT ![t] = [NewWrite(b) EXCEPT
                                            !.done = TRUE, !.n = 0,
                                            !.err = Ptr(ErrClosedPipe)]]
         ELSE /\ pc' = [pc EXCEPT ![t] = "w_err"]
              /\ wr' = [wr EXCEPT ![t] = NewWrite(b)]
    /\ nWrites' = nWrites + 1
    /\ UNCHANGED <<shared, fl, closeReturned, okToken, clock, hist>>

\* if w.err != nil { return 0, w.err }
WriteCheckErr(t) ==
    /\ pc[t] = "w_err"
    /\ IF err # Nil
         THEN /\ pc' = [pc EXCEPT ![t] = "w_ret"]
              /\ wr' = [wr EXCEPT ![t].done = TRUE, ![t].n = 0, ![t].err = err]
         ELSE /\ pc' = [pc EXCEPT ![t] = "w_buf"]
              /\ UNCHANGED wr
    /\ UNCHANGED <<shared, fl, nWrites, closeReturned, okToken, plan, clock, hist>>

\* eventsBuffer.add, under the buffer's own mutex
add(buf, event) == Append(buf, event)

\* BufferStep without the check for an empty read
BufferStepNoSkip(rest) ==
    LET r == ReadBytes(rest, NL)
    IN  [line |-> r.line, rest |-> r.rest, eof |-> r.eof, skip |-> FALSE]

\* one iteration of the loop of Writer.buffer on the unread bytes rest:
\* read up to the next line break; an empty read is skipped (continue)
BufferStep(rest) ==
    LET r == ReadBytes(rest, NL)
    IN  [line |-> r.line, rest |-> r.rest, eof |-> r.eof,
         skip |-> (Len(r.line) = 0)]

\* the messages of the events one call of Writer.buffer adds for the bytes
\* b, in order
RECURSIVE BufferLines(_)
BufferLines(b) ==
    LET r == BufferStep(b)
        ev == IF r.skip THEN <<>> ELSE <<r.line>>
    IN  IF r.eof THEN ev ELSE ev \o BufferLines(r.rest)

\* one iteration of the loop of Writer.buffer up to the call of add: read a
\* line and, unless it is empty, build its event with the time now() gives;
\* at io.EOF after an empty read return n, nil
WriteBuffer(t) ==
    /\ pc[t] = "w_buf"
    /\ LET r == BufferStep(wr[t].rest)
       IN  IF r.skip
             THEN /\ wr' = [wr EXCEPT ![t].rest = r.rest, ![t].eof = r.eof,
                                      ![t].done = r.eof]
                  /\ pc' = [pc EXCEPT ![t] = IF r.eof THEN "w_ret" ELSE "w_buf"]
             ELSE /\ wr' = [wr EXCEPT ![t].rest = r.rest, ![t].eof = r.eof,
                                      ![t].ev = Ptr(NewEvent(r.line, clock))]
                  /\ pc' = [pc EXCEPT ![t] = "w_add"]
    /\ UNCHANGED <<shared, fl, nWrites, closeReturned, okToken, plan, clock, hist>>

\* WriteAdd taking the mutex of Flush around the add
WriteAddLocked(t) ==
    /\ pc[t] = "w_add"
    /\ mu = Nil
    /\ LET ev == [Deref(wr[t].ev) EXCEPT !.id = nAdded + 1]
       IN  /\ events' = add(events, ev)
           /\ nAdded' = nAdded + 1
           /\ wr' = [wr EXCEPT
                 ![t].n = @ + Len(ev.Message),
                 ![t].added = Append(@, ev),
                 ![t].ev = Nil,
                 ![t].done = wr[t].eof]
           /\ pc' = [pc EXCEPT ![t] = IF wr[t].eof THEN "w_ret" ELSE "w_buf"]
    /\ UNCHANGED <<closed, err, sequenceToken, mu, fl, nWrites, closeReturned,
                   okToken, plan, clock, drained, sent, stamps>>

\* the rest of the iteration: w.events.add(event); n += len(b)
WriteAdd(t) ==
    /\ pc[t] = "w_add"
    /\ LET ev == [Deref(wr[t].ev) EXCEPT !.id = nAdded + 1]
       IN  /\ events' = add(events, ev)
           /\ nAdded' = nAdded + 1
           /\ wr' = [wr EXCEPT
                 ![t].n = @ + Len(ev.Message),
                 ![t].added = Append(@, ev),
                 ![t].ev = Nil,
                 ![t].done = wr[t].eof]
           /\ pc' = [pc EXCEPT ![t] = IF wr[t].eof THEN "w_ret" ELSE "w_buf"]
    /\ UNCHANGED <<closed, err, sequenceToken, mu, fl, nWrites, closeReturned,
                   okToken, plan, clock, drained, sent, stamps>>

----------------------------------------------------------------------------
(* Writer.Flush, Writer.flush and Writer.putLogEvents *)

\* the ranks of the events evs, in order
Ids(evs) == [i \in 1..Len(evs) |-> evs[i].id]

\* the timestamps of the events evs, in order
Stamps(evs) == [i \in 1..Len(evs) |-> evs[i].Timestamp]

\* drain without b.events = nil
drainKeep(buf) == [events |-> buf, left |-> buf]

\* eventsBuffer.drain, under the buffer's own mutex: what it returns and
\* what it leaves in the buffer
drain(buf) == [events |-> buf, left |-> <<>>]

\* NoEvents with the check left out
NoEventsNever(evs) == FALSE

\* if len(events) == 0 { return }
NoEvents(evs) == Len(evs) = 0

\* Writer.putLogEvents: the named results (nextSequenceToken, err) for the
\* answer resp of client.PutLogEvents
putLogEvents(resp) ==
    IF resp.err # Nil THEN [nst |-> Nil, err |-> resp.err]
    ELSE [nst |-> resp.next, err |-> Nil]

\* TokenOf taking the first word of the message
TokenOfFirst(msg) == LET parts == Split(msg, SP) IN parts[1]

\* parts := strings.Split(awsErr.Message(), " "); parts[len(parts)-1]
TokenOf(msg) == LET parts == Split(msg, SP) IN parts[Len(parts)]

IsAwsCode(e, code) == e # Nil /\ Deref(e).aws /\ Deref(e).code = code

\* AfterFirst without the err = nil of the already-accepted branch
AfterFirstKeepErr(r) ==
    IF IsAwsCode(r.err, dataAlreadyAcceptedCode)
        THEN [retry |-> FALSE, token |-> Nil,
              nst |-> Ptr(TokenOf(Deref(r.err).msg)), err |-> r.err]
    ELSE IF IsAwsCode(r.err, invalidSequenceTokenCode)
        THEN [retry |-> TRUE, token |-> Ptr(TokenOf(Deref(r.err).msg)),
              nst |-> r.nst, err |-> r.err]
    ELSE [retry |-> FALSE, token |-> Nil, nst |-> r.nst, err |-> r.err]

\* Writer.flush after the first putLogEvents returned r: either the retry
\* it makes and with which token, or its final (nextSequenceToken, err)
AfterFirst(r) ==
    IF IsAwsCode(r.err, dataAlreadyAcceptedCode)
        THEN [retry |-> FALSE, token |-> Nil,
              nst |-> Ptr(TokenOf(Deref(r.err).msg)), err |-> Nil]
    ELSE IF IsAwsCode(r.err, invalidSequenceTokenCode)
        THEN [retry |-> TRUE, token |-> Ptr(TokenOf(Deref(r.err).msg)),
              nst |-> r.nst, err |-> r.err]
    ELSE [retry |-> FALSE, token |-> Nil, nst |-> r.nst, err |-> r.err]

\* AfterRetry dropping a second stale-token error
AfterRetrySwallow(r) ==
    [nst |-> r.nst,
     err |-> IF IsAwsCode(r.err, invalidSequenceTokenCode) THEN Nil ELSE r.err]

\* Writer.flush after the retry returned r: nextSequenceToken, err = r
AfterRetry(r) == [nst |-> r.nst, err |-> r.err]

\* StoredErr as w.err = w.flush(events): a success clears the error
StoredErrAssign(e, old) == e

\* StoredToken storing the token whatever the error
StoredTokenAlways(nst, e, old) == nst

\* the end of Writer.flush: if err != nil { w.err = err }
StoredErr(e, old) == IF e # Nil THEN e ELSE old

\* the end of Writer.flush: else { w.sequenceToken = nextSequenceToken }
StoredToken(nst, e, old) == IF e # Nil THEN old ELSE nst

\* a PutLogEvents request as the client sees it; afterClose is history
Call(evs, token) == [evs |-> evs, tok |-> token, afterClose |-> closeReturned]

\* Flush is entered by goroutine t on behalf of op
FlushEnter(t, op) ==
    /\ pc' = [pc EXCEPT ![t] = "f_lock"]
    /\ fl' = [fl EXCEPT ![t] = NewFlush(op)]

\* the body of Flush is over: what is left is the deferred w.Unlock()
FlushReturn(t, f) ==
    /\ fl' = [fl EXCEPT ![t] = [f EXCEPT !.done = TRUE,
                                         !.tok1 = sequenceToken',
                                         !.err1 = err']]
    /\ pc' = [pc EXCEPT ![t] = "f_unlock"]

\* Writer.flush ends with the locals out = (nextSequenceToken, err) and
\* stores the error or the token
FlushFinish(t, f, out) ==
    /\ err' = StoredErr(out.err, err)
    /\ sequenceToken' = StoredToken(out.nst, out.err, sequenceToken)
    /\ okToken' = IF out.err = Nil THEN sequenceToken' ELSE okToken
    /\ FlushReturn(t, [f EXCEPT !.out = out.err])

\* FlushLock that does not wait for the holder of the mutex
FlushLockNoWait(t) ==
    /\ pc[t] = "f_lock"
    /\ mu' = Ptr(t)
    /\ pc' = [pc EXCEPT ![t] = "f_drain"]
    /\ fl' = [fl EXCEPT ![t].tok0 = sequenceToken, ![t].err0 = err,
                        ![t].ok0 = okToken]
    /\ UNCHANGED <<closed, err, sequenceToken, events, wr, nWrites,
                   closeReturned, okToken, plan, clock, hist>>

\* w.Lock()
FlushLock(t) ==
    /\ pc[t] = "f_lock"
    /\ mu = Nil
    /\ mu' = Ptr(t)
    /\ pc' = [pc EXCEPT ![t] = "f_drain"]
    /\ fl' = [fl EXCEPT ![t].tok0 = sequenceToken, ![t].err0 = err,
                        ![t].ok0 = okToken]
    /\ UNCHANGED <<closed, err, sequenceToken, events, wr, nWrites,
                   closeReturned, okToken, plan, clock, hist>>

\* events := w.events.drain(); with no event, return; else w.flush(events)
\* sends the first PutLogEvents with w.sequenceToken
FlushDrain(t) ==
    /\ pc[t] = "f_drain"
    /\ LET d == drain(events)
       IN  /\ events' = d.left
           /\ drained' = drained \o Ids(d.events)
           /\ IF NoEvents(d.events)
                THEN /\ UNCHANGED <<err, sequenceToken, okToken, sent, stamps>>
                     /\ FlushReturn(t, fl[t])
                ELSE /\ fl' = [fl EXCEPT
                          ![t].batch = d.events,
                          ![t].calls = <<Call(d.events, sequenceToken)>>]
                     /\ sent' = sent \o Ids(d.events)
                     /\ stamps' = stamps \o Stamps(d.events)
                     /\ pc' = [pc EXCEPT ![t] = "f_resp1"]
                     /\ UNCHANGED <<err, sequenceToken, okToken>>
    /\ UNCHANGED <<closed, mu, wr, nWrites, closeReturned, plan, clock, nAdded>>

\* FlushResp1 putting the batch back in the buffer when the flush fails
FlushResp1Requeue(t, resp) ==
    /\ pc[t] = "f_resp1"
    /\ LET a == AfterFirst(putLogEvents(resp))
           f == [fl[t] EXCEPT !.resps = <<resp>>]
       IN  IF a.retry
             THEN /\ fl' = [fl EXCEPT ![t] =
                        [f EXCEPT !.calls = Append(@, Call(f.batch, a.token))]]
                  /\ pc' = [pc EXCEPT ![t] = "f_resp2"]
                  /\ UNCHANGED <<err, sequenceToken, okToken, events>>
             ELSE /\ FlushFinish(t, f, [nst |-> a.nst, err |-> a.err])
                  /\ events' = IF a.err # Nil THEN f.batch \o events ELSE events
    /\ UNCHANGED <<closed, mu, wr, nWrites, closeReturned, plan, clock, hist>>

\* the first PutLogEvents answers resp: the flush ends, or retries once with
\* the token of an InvalidSequenceTokenException
FlushResp1(t, resp) ==
    /\ pc[t] = "f_resp1"
    /\ LET a == AfterFirst(putLogEvents(resp))
           f == [fl[t] EXCEPT !.resps = <<resp>>]
       IN  IF a.retry
             THEN /\ fl' = [fl EXCEPT ![t] =
                        [f EXCEPT !.calls = Append(@, Call(f.batch, a.token))]]
                  /\ pc' = [pc EXCEPT ![t] = "f_resp2"]
                  /\ UNCHANGED <<err, sequenceToken, okToken>>
             ELSE FlushFinish(t, f, [nst |-> a.nst, err |-> a.err])
    /\ UNCHANGED <<closed, events, mu, wr, nWrites, closeReturned, plan, clock,
                   hist>>

\* the retried PutLogEvents answers resp and the flush ends
FlushResp2(t, resp) ==
    /\ pc[t] = "f_resp2"
    /\ FlushFinish(t, [fl[t] EXCEPT !.resps = Append(@, resp)],
                   AfterRetry(putLogEvents(resp)))
    /\ UNCHANGED <<closed, events, mu, wr, nWrites, closeReturned, plan, clock,
                   hist>>

\* FlushUnlock after which Writer.start returns the error of its flush
FlushUnlockStopOnErr(t) ==
    /\ pc[t] = "f_unlock"
    /\ mu' = Nil
    /\ pc' = [pc EXCEPT ![t] = IF t # Sched THEN "idle"
                               ELSE IF fl[t].out # Nil THEN "s_exit"
                               ELSE "s_check"]
    /\ closeReturned' = (closeReturned \/ fl[t].op = "Close")
    /\ fl' = [fl EXCEPT ![t] = NoFlush]
    /\ UNCHANGED <<closed, err, sequenceToken, events, wr, nWrites, okToken,
                   plan, clock, hist>>

\* defer w.Unlock(): Flush returns, to Close or to the caller, which go
\* on, or to Writer.start, which loops
FlushUnlock(t) ==
    /\ pc[t] = "f_unlock"
    /\ mu' = Nil
    /\ pc' = [pc EXCEPT ![t] = IF t = Sched THEN "s_check" ELSE "idle"]
    /\ closeReturned' = (closeReturned \/ fl[t].op = "Close")
    /\ fl' = [fl EXCEPT ![t] = NoFlush]
    /\ UNCHANGED <<closed, err, sequenceToken, events, wr, nWrites, okToken,
                   plan, clock, hist>>

----------------------------------------------------------------------------
(* The public calls and the flushing goroutine *)

\* Flush() is called
FlushCall(t) ==
    /\ pc[t] = "idle"
    /\ FlushEnter(t, "Flush")
    /\ UNCHANGED <<shared, wr, nWrites, closeReturned, okToken, plan, clock, hist>>

\* CloseCall that also forgets the token
CloseCallForgetToken(t) ==
    /\ pc[t] = "idle"
    /\ closed' = TRUE
    /\ sequenceToken' = Nil
    /\ FlushEnter(t, "Close")
    /\ UNCHANGED <<err, events, mu, wr, nWrites, closeReturned, okToken, plan,
                   clock, hist>>

\* CloseCall returning at once, without the final flush
CloseCallNoFlush(t) ==
    /\ pc[t] = "idle"
    /\ closed' = TRUE
    /\ pc' = [pc EXCEPT ![t] = "f_unlock"]
    /\ fl' = [fl EXCEPT ![t] = [NewFlush("Close") EXCEPT !.done = TRUE]]
    /\ UNCHANGED <<err, sequenceToken, events, mu, wr, nWrites, closeReturned,
                   okToken, plan, clock, hist>>

\* Close() is called: w.closed = true, then w.Flush()
CloseCall(t) ==
    /\ pc[t] = "idle"
    /\ closed' = TRUE
    /\ FlushEnter(t, "Close")
    /\ UNCHANGED <<err, sequenceToken, events, mu, wr, nWrites, closeReturned,
                   okToken, plan, clock, hist>>

\* StartCheck that never returns
StartCheckNoExit ==
    /\ pc[Sched] = "s_check"
    /\ pc' = [pc EXCEPT ![Sched] = "s_tick"]
    /\ UNCHANGED <<shared, wr, fl, nWrites, closeReturned, okToken, plan, clock,
                   hist>>

\* Writer.start: if w.closed { return nil }
StartCheck ==
    /\ pc[Sched] = "s_check"
    /\ pc' = [pc EXCEPT ![Sched] = IF closed THEN "s_exit" ELSE "s_tick"]
    /\ UNCHANGED <<shared, wr, fl, nWrites, closeReturned, okToken, plan, clock,
                   hist>>

\* Writer.start: <-w.flushTicker, then w.Flush()
StartTick ==
    /\ pc[Sched] = "s_tick"
    /\ FlushEnter(Sched, "start")
    /\ UNCHANGED <<shared, wr, nWrites, closeReturned, okToken, plan, clock, hist>>

\* the caller has the result of its Write: the goroutine goes on
WriteDone(t) ==
    /\ pc[t] = "w_ret"
    /\ pc' = [pc EXCEPT ![t] = "idle"]
    /\ wr' = [wr EXCEPT ![t] = NoWrite]
    /\ UNCHANGED <<shared, fl, nWrites, closeReturned, okToken, plan, clock, hist>>

Next ==
    \/ \E t \in Writers, b \in Inputs :
          nWrites < MaxWrites /\ WriteCall(t, b) /\ UNCHANGED plan
    \/ \E t \in Writers : WriteCheckErr(t)
    \/ \E t \in Writers : WriteBuffer(t)
    \/ \E t \in Writers : WriteAdd(t)
    \/ \E t \in Writers : WriteDone(t)
    \/ \E t \in Writers : FlushCall(t)
    \/ \E t \in Closers : ~closed /\ CloseCall(t)
    \/ StartCheck
    \/ StartTick
    \/ \E t \in Threads : FlushLock(t)
    \/ \E t \in Threads : FlushDrain(t)
    \/ \E t \in Threads, resp \in Responses : FlushResp1(t, resp)
    \/ \E t \in Threads, resp \in Responses : FlushResp2(t, resp)
    \/ \E t \in Threads : FlushUnlock(t)

Spec == Init /\ [][Next]_vars

\* a step of goroutine t between w.Lock() and the end of Flush
FlushInside(t) ==
    \/ FlushDrain(t)
    \/ \E resp \in Responses : FlushResp1(t, resp)
    \/ \E resp \in Responses : FlushResp2(t, resp)
    \/ FlushUnlock(t)

\* Spec when the ticker keeps firing, the remote calls return, the goroutine
\* of start and the goroutines inside Flush keep running, and a goroutine
\* waiting in w.Lock() gets the mutex in the end
Fairness ==
    /\ WF_vars(StartCheck \/ StartTick)
    /\ \A t \in Threads :
          /\ SF_vars(FlushLock(t))
          /\ WF_vars(FlushInside(t))

SpecLive == Spec /\ Fairness

----------------------------------------------------------------------------
(* Batching: one goroutine writes an input cut into pieces, one Write call *)
(* per piece, and then flushes, while the ticker does not fire.            *)

\* the byte strings of length 1..n
RECURSIVE BytesUpTo(_)
BytesUpTo(n) ==
    IF n = 0 THEN {}
    ELSE BytesUpTo(n - 1) \cup [1..n -> Bytes]

\* the ways of cutting s into consecutive non-empty pieces
RECURSIVE Cuts(_)
Cuts(s) ==
    IF Len(s) = 0 THEN {<<>>}
    ELSE UNION {{<<SubSeq(s, 1, i)>> \o c : c \in Cuts(SubSeq(s, i + 1, Len(s)))}
                    : i \in 1..Len(s)}

InitBatch ==
    /\ closed = FALSE
    /\ err = Nil
    /\ sequenceToken = Nil
    /\ events = <<>>
    /\ mu = Nil
    /\ pc = [t \in Threads |-> IF t = Sched THEN "s_check" ELSE "idle"]
    /\ wr = [t \in Threads |-> NoWrite]
    /\ fl = [t \in Threads |-> NoFlush]
    /\ nWrites = 0
    /\ closeReturned = FALSE
    /\ okToken = Nil
    /\ clock = 0
    /\ nAdded = 0
    /\ drained = <<>>
    /\ sent = <<>>
    /\ stamps = <<>>
    /\ \E in \in BytesUpTo(MaxLen) : \E c \in Cuts(in) :
          plan = [input |-> in, cut |-> c, pieces |-> c]

BatchWriter == "c1"

NextBatch ==
    \/ /\ plan.pieces # <<>>
       /\ WriteCall(BatchWriter, Head(plan.pieces))
       /\ plan' = [plan EXCEPT !.pieces = Tail(@)]
    \/ WriteCheckErr(BatchWriter)
    \/ WriteBuffer(BatchWriter)
    \/ WriteAdd(BatchWriter)
    \/ WriteDone(BatchWriter)
    \/ plan.pieces = <<>> /\ FlushCall(BatchWriter)
    \/ FlushLock(BatchWriter)
    \/ FlushDrain(BatchWriter)
    \/ \E resp \in Responses : FlushResp1(BatchWriter, resp)
    \/ \E resp \in Responses : FlushResp2(BatchWriter, resp)
    \/ FlushUnlock(BatchWriter)

SpecBatch == InitBatch /\ [][NextBatch]_vars

----------------------------------------------------------------------------
(* Concurrent writers: both caller goroutines write while the ticker       *)
(* fires; nobody closes.                                                   *)

NextWriters ==
    \/ \E t \in Callers, b \in Inputs :
          nWrites < MaxWrites /\ WriteCall(t, b) /\ UNCHANGED plan
    \/ \E t \in Callers : WriteCheckErr(t)
    \/ \E t \in Callers : WriteBuffer(t)
    \/ \E t \in Callers : WriteAdd(t)
    \/ \E t \in Callers : WriteDone(t)
    \/ StartCheck
    \/ StartTick
    \/ \E t \in Threads : FlushLock(t)
    \/ \E t \in Threads : FlushDrain(t)
    \/ \E t \in Threads, resp \in Responses : FlushResp1(t, resp)
    \/ \E t \in Threads, resp \in Responses : FlushResp2(t, resp)
    \/ \E t \in Threads : FlushUnlock(t)

SpecWriters == Init /\ [][NextWriters]_vars

\* a millisecond passes
ClockTick ==
    /\ clock < MaxClock
    /\ clock' = clock + 1
    /\ UNCHANGED <<shared, pc, wr, fl, nWrites, closeReturned, okToken, plan,
                   hist>>

\* the same while the clock advances
NextClock ==
    \/ NextWriters
    \/ ClockTick

SpecClock == Init /\ [][NextClock]_vars

----------------------------------------------------------------------------
(* Large buffers: the writer holds the events of n earlier Write calls of  *)
(* one line each when a goroutine flushes or the ticker fires.             *)

\* the numbers of events buffered: a few, and around the limit of a request
BufferSizes ==
    {1, 2, 3, maximumLogEventsPerPut - 1, maximumLogEventsPerPut,
     maximumLogEventsPerPut + 1}

\* the buffer after n calls Write("a") at time 0
Filled(n) == [i \in 1..n |-> [NewEvent(<<"a">>, 0) EXCEPT !.id = i]]

InitLimits ==
    /\ closed = FALSE
    /\ err = Nil
    /\ sequenceToken = Nil
    /\ mu = Nil
    /\ pc = [t \in Threads |-> IF t = Sched THEN "s_check" ELSE "idle"]
    /\ wr = [t \in Threads |-> NoWrite]
    /\ fl = [t \in Threads |-> NoFlush]
    /\ closeReturned = FALSE
    /\ okToken = Nil
    /\ plan = [input |-> <<>>, cut |-> <<>>, pieces |-> <<>>]
    /\ clock = 0
    /\ drained = <<>>
    /\ sent = <<>>
    /\ stamps = <<>>
    /\ \E n \in BufferSizes :
          /\ events = Filled(n)
          /\ nWrites = n
          /\ nAdded = n

NextLimits ==
    \/ \E t \in Writers : FlushCall(t)
    \/ StartCheck
    \/ StartTick
    \/ \E t \in Threads : FlushLock(t)
    \/ \E t \in Threads : FlushDrain(t)
    \/ \E t \in Threads, resp \in Responses : FlushResp1(t, resp)
    \/ \E t \in Threads, resp \in Responses : FlushResp2(t, resp)
    \/ \E t \in Threads : FlushUnlock(t)

SpecLimits == InitLimits /\ [][NextLimits]_vars

----------------------------------------------------------------------------
(* Properties of the retry protocol (Spec) *)

\* the answers that reject a request with one of the two conflict errors
StaleAnswers == {RespStale(T) : T \in Tokens}
AlreadyAnswers == {RespAlready(T) : T \in Tokens}
OkAnswers == {RespOk(T) : T \in Tokens}

\* C1: a flush whose first PutLogEvents is rejected with
\* InvalidSequenceTokenException carrying T retries with exactly T and the
\* same events; when the retry succeeds the writer then holds the token the
\* retry returned.
C1_StaleRetry ==
    \A t \in Threads : \A T \in Tokens :
        (Len(fl[t].resps) >= 1 /\ fl[t].resps[1] = RespStale(T)) =>
            /\ Len(fl[t].calls) = 2
            /\ fl[t].calls[2].tok = Ptr(T)
            /\ fl[t].calls[2].evs = fl[t].calls[1].evs
            /\ fl[t].calls[1].evs = fl[t].batch
            /\ \A U \in Tokens :
                  (fl[t].done /\ fl[t].resps[2] = RespOk(U)) =>
                      fl[t].tok1 = Ptr(U)

C1_Witness ==
    \E t \in Threads :
        /\ fl[t].done
        /\ fl[t].resps = <<RespStale(<<"t", "1">>), RespOk(<<"t", "2">>)>>
        /\ fl[t].calls[2].tok = Ptr(<<"t", "1">>)
        /\ fl[t].tok0 # Ptr(<<"t", "1">>)
        /\ sequenceToken = Ptr(<<"t", "2">>)

\* C2: a flush whose first PutLogEvents is rejected with
\* DataAlreadyAcceptedException carrying T makes that one call only, leaves
\* the writer holding T and records no error.
C2_AlreadyAccepted ==
    \A t \in Threads : \A T \in Tokens :
        (Len(fl[t].resps) >= 1 /\ fl[t].resps[1] = RespAlready(T)) =>
            /\ fl[t].done
            /\ Len(fl[t].calls) = 1
            /\ Len(fl[t].resps) = 1
            /\ fl[t].tok1 = Ptr(T)
            /\ fl[t].err1 = fl[t].err0

C2_Witness ==
    \E t \in Threads :
        /\ fl[t].done
        /\ fl[t].resps = <<RespAlready(<<"t", "2">>)>>
        /\ fl[t].tok0 = Ptr(<<"t", "1">>)
        /\ sequenceToken = Ptr(<<"t", "2">>)
        /\ err = Nil

\* C3: a flush makes at most two PutLogEvents calls, the second only after
\* a stale-token rejection of the first; when the second fails as well, no
\* third call follows and the retry's error becomes the writer's error.
C3_AtMostTwoCalls ==
    \A t \in Threads :
        /\ Len(fl[t].calls) <= 2
        /\ Len(fl[t].calls) = 2 => fl[t].resps[1] \in StaleAnswers
        /\ (Len(fl[t].resps) = 2 /\ fl[t].resps[2].err # Nil) =>
              /\ fl[t].done
              /\ Len(fl[t].calls) = 2
              /\ fl[t].err1 = fl[t].resps[2].err

C3_Witness ==
    \E t \in Threads :
        /\ fl[t].done
        /\ Len(fl[t].resps) = 2
        /\ fl[t].resps[1] \in StaleAnswers
        /\ fl[t].resps[2] \in StaleAnswers
        /\ Len(fl[t].calls) = 2
        /\ err = fl[t].resps[2].err

\* C4: a flush (explicit, scheduled or the one of Close) that drains no
\* event makes no PutLogEvents call and leaves the held token and the
\* stored error as they were.
C4_EmptyFlushNoOp ==
    \A t \in Threads :
        /\ fl[t].calls # <<>> => fl[t].batch # <<>>
        /\ (fl[t].done /\ fl[t].batch = <<>>) =>
              /\ fl[t].calls = <<>>
              /\ fl[t].tok1 = fl[t].tok0
              /\ fl[t].err1 = fl[t].err0

C4_Witness ==
    \E t \in Threads :
        /\ fl[t].op = "Close"
        /\ fl[t].done
        /\ fl[t].batch = <<>>
        /\ fl[t].calls = <<>>
        /\ sequenceToken # Nil
        /\ err # Nil

----------------------------------------------------------------------------
(* Properties of the writer's states (Spec) *)

\* the errors a PutLogEvents answer can carry
AppendErrors == {r.err : r \in Responses} \ {Nil}

\* C5: once Close has returned, every Write call made afterwards returns
\* io.ErrClosedPipe and the flushing goroutine sends no PutLogEvents.
C5_ClosedIsQuiet ==
    /\ \A t \in Callers :
          (wr[t].done /\ wr[t].afterClose) => wr[t].err = Ptr(ErrClosedPipe)
    /\ \A i \in 1..Len(fl[Sched].calls) : ~fl[Sched].calls[i].afterClose

\* C6 as stated: once a flush has stored an error E, every Write call made
\* afterwards returns that same E and buffers nothing, and no later flush
\* replaces E.
C6_SameErrorForEver ==
    /\ \A t \in Callers :
          (wr[t].done /\ wr[t].stored # Nil) =>
              wr[t].err = wr[t].stored /\ wr[t].added = <<>>
    /\ \A t \in Threads :
          (fl[t].done /\ fl[t].err0 # Nil) => fl[t].err1 = fl[t].err0

\* C6 as stated, its last part alone: no flush replaces a stored error.
C6_NeverReplaced ==
    \A t \in Threads :
        (fl[t].done /\ fl[t].err0 # Nil) => fl[t].err1 = fl[t].err0

\* C6 as amended: once a flush has stored an error, the stored error is
\* never cleared, and every Write call made afterwards is rejected, with
\* io.ErrClosedPipe when the writer is closed and else with an error a flush
\* stored, buffers no event and makes no PutLogEvents call.
C6_StickyFailure ==
    /\ \A t \in Callers :
          (wr[t].done /\ wr[t].stored # Nil) =>
              /\ wr[t].err # Nil
              /\ wr[t].err \in AppendErrors \cup {Ptr(ErrClosedPipe)}
              /\ wr[t].err = Ptr(ErrClosedPipe) => closed
              /\ wr[t].n = 0
              /\ wr[t].added = <<>>
    /\ \A t \in Callers : wr[t].active => fl[t].calls = <<>>
    /\ \A t \in Threads :
          (fl[t].done /\ fl[t].err0 # Nil) => fl[t].err1 # Nil

C6_Witness ==
    \E t \in Callers :
        /\ wr[t].done
        /\ wr[t].stored # Nil
        /\ wr[t].err = wr[t].stored
        /\ ~closed

\* C7: the first PutLogEvents of every flush that drained events carries
\* the token stored by the last flush that ended in success.
C7_TokenChaining ==
    \A t \in Threads :
        fl[t].calls # <<>> => fl[t].calls[1].tok = fl[t].ok0

C7_Witness ==
    \E t \in Threads :
        /\ fl[t].calls # <<>>
        /\ fl[t].ok0 = Ptr(<<"t", "1">>)
        /\ fl[t].calls[1].tok = Ptr(<<"t", "1">>)
        /\ err # Nil

\* C8: a flush whose rejections are all stale-token or already-accepted
\* conflicts and whose events ended up accepted records no error.
C8_ConflictsNeverSurface ==
    \A t \in Threads :
        ( /\ fl[t].done
          /\ fl[t].resps # <<>>
          /\ \A i \in 1..Len(fl[t].resps) :
                fl[t].resps[i] \in OkAnswers \cup StaleAnswers \cup AlreadyAnswers
          /\ fl[t].resps[Len(fl[t].resps)] \in OkAnswers \cup AlreadyAnswers )
        => fl[t].err1 = fl[t].err0

----------------------------------------------------------------------------
(* Properties of Close, of Write and of the flushing goroutine (Spec, SpecLive) *)

\* the elements of the sequence s
Range(s) == {s[i] : i \in 1..Len(s)}

\* the ranks 1..n in order
UpTo(n) == [i \in 1..n |-> i]

\* C11: when Close returns, every event the buffer held when Close was called
\* has been drained and handed to PutLogEvents, the buffer holds none of
\* them and the writer is closed, whether the final flush fails or not.
C11_CloseDrains ==
    \A t \in Threads :
        (fl[t].op = "Close" /\ fl[t].done) =>
            /\ closed
            /\ \A i \in Range(Ids(fl[t].buf0)) :
                  /\ i \in Range(drained)
                  /\ i \in Range(sent)
                  /\ i \notin Range(Ids(events))

C11_Witness ==
    \E t \in Threads :
        /\ fl[t].op = "Close"
        /\ fl[t].done
        /\ fl[t].buf0 # <<>>
        /\ fl[t].batch = fl[t].buf0
        /\ fl[t].err1 # Nil
        /\ fl[t].err0 = Nil

\* C12: a flush that finds the writer without a token makes exactly one
\* lookup of the stream's token before its first PutLogEvents, which carries
\* the token the lookup found, or no token when the lookup failed or found
\* no stream.
C12_TokenBootstrap ==
    \A t \in Threads :
        (fl[t].calls # <<>> /\ fl[t].tok0 = Nil) =>
            /\ Len(fl[t].lookups) = 1
            /\ fl[t].calls[1].tok = fl[t].lookups[1].found

\* where a goroutine stands between w.Lock() and the deferred w.Unlock()
InFlush == {"f_drain", "f_resp1", "f_resp2", "f_unlock"}

\* C15: no two flushes of the writer (explicit, scheduled, the one of Close)
\* are at the same time between their drain and the end of their last
\* PutLogEvents; a flush started while another is in flight has not drained
\* before that one has finished.
C15_OneFlushInFlight ==
    \A t \in Threads :
        pc[t] \in InFlush =>
            /\ mu = Ptr(t)
            /\ \A u \in Threads \ {t} :
                  /\ pc[u] \notin InFlush
                  /\ fl[u].batch = <<>> /\ fl[u].calls = <<>> /\ ~fl[u].done

C15_Witness ==
    /\ pc["c1"] = "f_resp2"
    /\ fl["c1"].op = "Flush"
    /\ pc["c2"] = "f_lock"
    /\ fl["c2"].op = "Close"
    /\ pc[Sched] = "f_lock"
    /\ fl[Sched].op = "start"

\* a step of the Write call of goroutine t
WriteStep(t) == WriteCheckErr(t) \/ WriteBuffer(t) \/ WriteAdd(t)

\* where a goroutine stands inside a Write call
InWrite == {"w_err", "w_buf", "w_add"}

\* a flush holds the mutex and waits for the answer of PutLogEvents
FlushInFlight == \E t \in Threads : pc[t] \in {"f_resp1", "f_resp2"}

\* C16: a Write call never waits for a flush and sends nothing: each of its
\* steps can be taken whoever holds the mutex of Flush and leaves the
\* requests made untouched; the events a Write adds to an open writer while
\* a flush is in flight are not in the batch of that flush, and a later
\* flush hands them to PutLogEvents: every event added is in the buffer or
\* was handed to PutLogEvents, and the buffer is drained in the end.
C16_WriteNeverWaits ==
    /\ [](\A t \in Callers : pc[t] \in InWrite => ENABLED WriteStep(t))
    /\ [][\A t \in Callers :
            (pc[t] \in InWrite /\ pc'[t] # pc[t]) =>
                (sent' = sent /\ fl' = fl /\ mu' = mu)]_vars
    /\ [](\A t \in Threads :
            Range(Ids(fl[t].batch)) \cap Range(Ids(events)) = {})
    /\ [](sent \o Ids(events) = UpTo(nAdded))
    /\ (FlushInFlight /\ ~closed /\ events # <<>>) ~> (events = <<>>)

C16_Witness ==
    /\ pc[Sched] = "f_resp1"
    /\ ~closed
    /\ fl[Sched].err0 = Nil
    /\ pc["c1"] = "w_ret"
    /\ wr["c1"].err = Nil
    /\ Len(wr["c1"].added) = 2
    /\ Ids(events) = Ids(wr["c1"].added)
    /\ fl[Sched].batch # <<>>

\* C17: once Close has been called, the goroutine of start returns in the
\* end, and having returned it never runs again.
C17_SchedulerExits ==
    /\ closed ~> (pc[Sched] = "s_exit")
    /\ [][pc[Sched] = "s_exit" => pc'[Sched] = "s_exit"]_vars

C17_Witness ==
    /\ closed
    /\ closeReturned
    /\ pc[Sched] = "s_exit"
    /\ sent # <<>>

\* the flush of the goroutine of start has ended in failure
SchedFlushFailed ==
    /\ pc[Sched] = "f_unlock"
    /\ fl[Sched].op = "start"
    /\ fl[Sched].out # Nil

\* C18: a scheduled flush that ends in failure does not stop the goroutine
\* of start: the error is in Writer.err, the goroutine goes back to the top
\* of its loop, returns only when the writer is closed, and calls Flush
\* again unless the writer is closed.
C18_SchedulerSurvivesErrors ==
    /\ [](SchedFlushFailed => err = fl[Sched].out)
    /\ [](pc[Sched] = "s_exit" => closed)
    /\ [][(pc[Sched] = "f_unlock" /\ pc'[Sched] # "f_unlock") =>
            pc'[Sched] = "s_check"]_vars
    /\ SchedFlushFailed ~> (closed \/ pc[Sched] = "f_lock")

C18_Witness ==
    /\ pc[Sched] = "f_lock"
    /\ ~closed
    /\ err # Nil
    /\ events # <<>>
    /\ pc["c1"] = "idle"
    /\ pc["c2"] = "idle"
    /\ nWrites = 1

\* the last answer the flush f got says that its batch is in the stream
Accepted(f) ==
    /\ f.resps # <<>>
    /\ f.resps[Len(f.resps)] \in OkAnswers \cup AlreadyAnswers

\* C20: the held token changes only in the step that ends a flush whose
\* batch was accepted, taken by the holder of the mutex of Flush; a flush
\* that ends in failure leaves the token as it found it; the token is read
\* for a request only by the holder of the mutex; Write and the part of
\* Close before its flush never change it.
C20_TokenFrame ==
    /\ [][sequenceToken' # sequenceToken =>
            \E t \in Threads :
                /\ mu = Ptr(t)
                /\ pc[t] \in {"f_resp1", "f_resp2"}
                /\ pc'[t] = "f_unlock"
                /\ fl'[t].out = Nil
                /\ Accepted(fl'[t])]_vars
    /\ [](\A t \in Threads :
            (fl[t].done /\ fl[t].out # Nil) => fl[t].tok1 = fl[t].tok0)
    /\ [](\A t \in Threads : fl[t].calls # <<>> => mu = Ptr(t))

C20_Witness ==
    \E t \in Threads :
        /\ fl[t].done
        /\ fl[t].out # Nil
        /\ Len(fl[t].resps) = 2
        /\ fl[t].tok0 = Ptr(<<"t", "2">>)
        /\ sequenceToken = Ptr(<<"t", "2">>)

\* no element of the sequence s occurs twice
NoDup(s) == \A i, j \in 1..Len(s) : s[i] = s[j] => i = j

\* C21: a batch belongs to one flush and is dropped when that flush fails:
\* no event is drained twice, every request of a flush carries the batch
\* that flush drained, no event handed to PutLogEvents is in the buffer or
\* in the first request of another flush, and the step that ends a flush in
\* failure puts nothing back in the buffer.
C21_BatchDroppedOnFailure ==
    /\ [](NoDup(drained) /\ NoDup(sent))
    /\ [](Range(drained) \cap Range(Ids(events)) = {})
    /\ [](Range(sent) \cap Range(Ids(events)) = {})
    /\ [](\A t \in Threads : \A i \in 1..Len(fl[t].calls) :
            fl[t].calls[i].evs = fl[t].batch)
    /\ [][\A t \in Threads :
            (~fl[t].done /\ fl'[t].done /\ fl'[t].out # Nil) =>
                /\ events' = events
                /\ Range(Ids(fl'[t].batch)) \cap Range(Ids(events')) = {}]_vars

C21_Witness ==
    \E t \in Threads :
        /\ pc[t] = "f_resp1"
        /\ fl[t].err0 # Nil
        /\ fl[t].calls # <<>>
        /\ Len(sent) > Len(fl[t].batch)
        /\ events # <<>>

\* the ranks an event can have
EventIds == 1..(2 * MaxWrites)

\* a Write call has returned without error after adding the event of rank i
AcceptedEvent(i) ==
    \E t \in Callers :
        /\ pc[t] = "w_ret"
        /\ wr[t].err = Nil
        /\ i \in Range(Ids(wr[t].added))

\* C22: no accepted event is stranded: when the ticker keeps firing and the
\* remote calls return, every event added by a Write call that returned
\* without error is drained and handed to PutLogEvents in the end.
C22_NoStrandedEvent ==
    \A i \in EventIds : AcceptedEvent(i) ~> (i \in Range(sent))

----------------------------------------------------------------------------
(* Properties of the buffer under concurrent writers (SpecWriters) *)

\* C14: whatever the interleaving of adds and drains, the batches the drains
\* returned followed by the buffer are the events added, each once; and a
\* drain returns every event added before it and leaves the buffer empty.
C14_NoLossNoDup ==
    [][ /\ drained' \o Ids(events') = UpTo(nAdded')
        /\ drained' # drained =>
              /\ drained' = UpTo(nAdded)
              /\ events' = <<>> ]_vars

C14_Witness ==
    /\ \E t \in Threads : pc[t] = "f_resp1" /\ Len(fl[t].batch) = 1
    /\ Len(drained) = 1
    /\ Len(events) = 1
    /\ pc["c1"] = "w_add"
    /\ pc["c2"] = "w_add"

----------------------------------------------------------------------------
(* Properties of the timestamps under concurrent writers (SpecClock) *)

\* C19: the events are drained in the order they were added, and that is
\* the order of their timestamps: within every batch handed to PutLogEvents
\* and from one batch to the next, the timestamps never decrease, however
\* the Write calls of the goroutines interleave.
C19_TimestampOrder ==
    /\ drained = UpTo(Len(drained))
    /\ \A i, j \in 1..Len(stamps) : i < j => stamps[i] <= stamps[j]

----------------------------------------------------------------------------
(* Properties of the size of a request (SpecLimits) *)

\* the size of the events lo..hi of evs, each counted as the length of its
\* message plus perEventBytes
RECURSIVE PayloadBytes(_, _, _)
PayloadBytes(evs, lo, hi) ==
    IF lo > hi THEN 0
    ELSE IF lo = hi THEN Len(evs[lo].Message) + perEventBytes
    ELSE LET mid == (lo + hi) \div 2
         IN  PayloadBytes(evs, lo, mid) + PayloadBytes(evs, mid + 1, hi)

\* C13: every PutLogEvents request carries at most maximumLogEventsPerPut
\* events and at most maximumBytesPerPut bytes of payload, however many
\* events were buffered before the flush.
C13_BatchLimits ==
    \A t \in Threads : \A i \in 1..Len(fl[t].calls) :
        /\ Len(fl[t].calls[i].evs) <= maximumLogEventsPerPut
        /\ PayloadBytes(fl[t].calls[i].evs, 1, Len(fl[t].calls[i].evs))
              <= maximumBytesPerPut

----------------------------------------------------------------------------
(* Properties of the batching (SpecBatch) *)

\* the messages of the events of the first PutLogEvents of the flush
SentMessages ==
    LET evs == fl[BatchWriter].calls[1].evs
    IN  [i \in 1..Len(evs) |-> evs[i].Message]

\* b is k >= 1 non-empty lines separated by line breaks
IsLines(b) == \A i \in 1..Len(Split(b, NL)) : Len(Split(b, NL)[i]) > 0

\* the lines of b, each but the last with the line break that ends it
LinesWithBreaks(b) ==
    LET parts == Split(b, NL)
    IN  [i \in 1..Len(parts) |->
            IF i < Len(parts) THEN Append(parts[i], NL) ELSE parts[i]]

\* the input was written in one Write call
OneWrite == Len(plan.cut) = 1

\* every cut of the input falls right after a line break
CutAtLineBreaks ==
    \A i \in 1..(Len(plan.cut) - 1) : plan.cut[i][Len(plan.cut[i])] = NL

HasLineBreak(b) == \E i \in 1..Len(b) : b[i] = NL

\* C9 as stated: one Write of k non-empty lines separated by line breaks
\* and a flush hand PutLogEvents k events, whose messages are the lines
\* without their line breaks, in order.
C9_StrippedLines ==
    (fl[BatchWriter].calls # <<>> /\ OneWrite /\ IsLines(plan.input)) =>
        SentMessages = Split(plan.input, NL)

\* C9 as amended: one Write of k non-empty lines separated by line breaks
\* and a flush hand PutLogEvents k events, one per line in order, whose
\* messages are the lines, each but the last with its line break.
C9_LinesWithBreaks ==
    (fl[BatchWriter].calls # <<>> /\ OneWrite /\ IsLines(plan.input)) =>
        /\ Len(SentMessages) = Len(Split(plan.input, NL))
        /\ SentMessages = LinesWithBreaks(plan.input)

C9_Witness ==
    /\ fl[BatchWriter].calls # <<>>
    /\ OneWrite
    /\ plan.input = <<"a", NL, "b", NL, "a">>
    /\ SentMessages = <<<<"a", NL>>, <<"b", NL>>, <<"a">>>>

\* C10 as stated: however an input with line breaks is cut into the pieces
\* of successive Write calls, the events flushed are those of one Write of
\* the whole input.
C10_AnyCut ==
    (fl[BatchWriter].calls # <<>> /\ HasLineBreak(plan.input)) =>
        SentMessages = BufferLines(plan.input)

\* C10 as amended: when an input with line breaks is cut right after line
\* breaks into the pieces of successive Write calls, the events flushed are
\* those of one Write of the whole input.
C10_CutAtLineBreaks ==
    (fl[BatchWriter].calls # <<>> /\ HasLineBreak(plan.input)
        /\ CutAtLineBreaks) =>
        SentMessages = BufferLines(plan.input)

C10_Witness ==
    /\ fl[BatchWriter].calls # <<>>
    /\ plan.cut = <<<<"a", NL>>, <<"b", NL>>, <<"a">>>>
    /\ Len(fl[BatchWriter].calls[1].evs) = 3

====
